---- MODULE Spec2Model ----
(***************************************************************************)
(* The Savia crowdfunding contract (contracts/hello-world/src/lib.rs) as a *)
(* state machine.  One action per public entry point; every action is the  *)
(* whole handler, private helpers included.                                *)
(*                                                                         *)
(* u64 amounts are kept at their full 64-bit width as four 16-bit limbs,   *)
(* least significant first, because TLC's integers are 32 bits wide.       *)
(* Counters, times and scores stay far below 2^31 within the bounds and    *)
(* are plain naturals.                                                     *)
(***************************************************************************)
EXTENDS Integers, Sequences, FiniteSets, TLC

\* ---------------------------------------------------------------- bounds
\* A behaviour holds at most MaxCalls successful invocations, and each counter is
\* capped in the guard of its creating action.
MaxCalls == 4
MaxCampaigns == 2
MaxDonations == 2
MaxDisbursements == 2
\* The same for the specification of the disbursement workflow, which runs
\* deeper on narrower inputs.
DisbMaxCalls == 8
DisbMaxCampaigns == 1
DisbMaxDonations == 1
\* The same for the specification of the trust scores.
TrustMaxCalls == 11
TrustMaxCampaigns == 10
TrustMaxDonations == 1
\* The same for the specification of two addresses that both create a
\* campaign and donate.
ScoreMaxCalls == 4
ScoreMaxCampaigns == 2
ScoreMaxDonations == 2
\* The same for the specification of the badges, whose donations run over
\* the amounts around every tier threshold.
NftMaxCalls == 4
NftMaxCampaigns == 1
NftMaxDonations == 1
\* The same for the specification of the campaign records, created with two
\* durations.
CampMaxCalls == 4
CampMaxCampaigns == 2
CampMaxDonations == 1

\* ------------------------------------------------------ 64-bit arithmetic
Base == 65536
Limbs == 4

\* A small natural (< 2^31) as a u64.
U64(n) == <<n % Base, n \div Base, 0, 0>>

U64Max == <<Base - 1, Base - 1, Base - 1, Base - 1>>

Zero64 == U64(0)

\* x padded with zero limbs at the top to n limbs.
Pad(x, n) == [i \in 1..n |-> IF i <= Len(x) THEN x[i] ELSE 0]

\* The exact sum x + y + c of two numbers of equal length, one limb longer.
RECURSIVE AddC(_, _, _)
AddC(x, y, c) ==
    IF x = <<>> THEN <<c>>
    ELSE LET t == Head(x) + Head(y) + c
         IN  <<t % Base>> \o AddC(Tail(x), Tail(y), t \div Base)

\* The exact product x * m + c for a small m (m <= 32767), one limb longer.
RECURSIVE MulC(_, _, _)
MulC(x, m, c) ==
    IF x = <<>> THEN <<c>>
    ELSE LET t == Head(x) * m + c
         IN  <<t % Base>> \o MulC(Tail(x), m, t \div Base)

\* x - y - b for x >= y + b, same length.
RECURSIVE SubB(_, _, _)
SubB(x, y, b) ==
    IF x = <<>> THEN <<>>
    ELSE LET t == Head(x) - Head(y) - b
         IN  IF t < 0 THEN <<t + Base>> \o SubB(Tail(x), Tail(y), 1)
             ELSE <<t>> \o SubB(Tail(x), Tail(y), 0)

\* Quotient and remainder of x by a small d (d <= 32767).
RECURSIVE DivRem(_, _)
DivRem(x, d) ==
    IF x = <<>> THEN [q |-> <<>>, r |-> 0]
    ELSE LET hi  == DivRem(Tail(x), d)
             cur == hi.r * Base + Head(x)
         IN  [q |-> <<cur \div d>> \o hi.q, r |-> cur % d]

\* -1, 0, 1 as x <, =, > y; same length.
RECURSIVE Cmp(_, _)
Cmp(x, y) ==
    IF x = <<>> THEN 0
    ELSE LET h == Cmp(Tail(x), Tail(y))
         IN  IF h # 0 THEN h
             ELSE IF Head(x) < Head(y) THEN -1
             ELSE IF Head(x) > Head(y) THEN 1 ELSE 0

\* Comparison of numbers of any lengths.
Less(x, y) ==
    LET n == IF Len(x) > Len(y) THEN Len(x) ELSE Len(y)
    IN  Cmp(Pad(x, n), Pad(y, n)) < 0

Leq(x, y) == ~Less(y, x)

\* Exact sum of numbers of any lengths (one limb longer than the longer).
Plus(x, y) ==
    LET n == IF Len(x) > Len(y) THEN Len(x) ELSE Len(y)
    IN  AddC(Pad(x, n), Pad(y, n), 0)

\* Equality of values, whatever the number of leading zero limbs.
Same(x, y) == ~Less(x, y) /\ ~Less(y, x)

\* The low 64 bits, and whether anything was cut.
Low64(x) == SubSeq(x, 1, Limbs)
Overflows(x) == \E i \in (Limbs + 1)..Len(x) : x[i] # 0

\* min(x, m) of a u64 and a small m, as a natural.
MinSmall(x, m) == IF Less(x, U64(m)) THEN x[1] ELSE m

Min(a, b) == IF a < b THEN a ELSE b

\* -------------------------------------------------------------- values
NoAddress == "none"

\* ----------------------------------------------------------------- state
VARIABLES
    admin,                \* DataKey::Admin, NoAddress while unset
    platformFee,          \* DataKey::PlatformFee as an option: {} or {bps}
    campaignCounter,      \* DataKey::CampaignCounter (unset reads as 0)
    donationCounter,      \* DataKey::DonationCounter
    nftCounter,           \* DataKey::NFTCounter
    disbursementCounter,  \* DataKey::DisbursementCounter
    stats,                \* DataKey::Stats (unset reads as all zero)
    campaigns,            \* DataKey::Campaign(id)     -> Campaign
    donations,            \* DataKey::Donation(id)     -> Donation
    trustScores,          \* DataKey::TrustScore(addr) -> TrustScore
    nfts,                 \* DataKey::NFTBadge(id)     -> NFTBadge
    disbursements,        \* DataKey::Disbursement(id) -> Disbursement
    now,                  \* env.ledger().timestamp()
    overflowChecks,       \* the build: TRUE traps on integer overflow, FALSE wraps
    call,                 \* the last invocation: entry point, arguments, signer
    result,               \* what it returned
    discarded,            \* the writes the last invocation made before it failed
    executions,           \* history: successful execute_disbursement calls per id
    checkpoints,          \* history: authorization checkpoints passed per id
    activity,             \* history: successful donations and campaigns per address
    calls                 \* history: successful invocations so far

store == <<admin, platformFee, campaignCounter, donationCounter, nftCounter,
           disbursementCounter, stats, campaigns, donations, trustScores, nfts,
           disbursements>>

vars == <<admin, platformFee, campaignCounter, donationCounter, nftCounter,
          disbursementCounter, stats, campaigns, donations, trustScores, nfts,
          disbursements, now, overflowChecks, call, result, discarded, executions,
          checkpoints, activity, calls>>

\* ------------------------------------------------------------ the store
\* storage().set(key, value): insert or overwrite.
Put(f, k, v) == [x \in DOMAIN f \cup {k} |-> IF x = k THEN v ELSE f[x]]

Empty == [x \in {} |-> 0]

NoId == <<>>

Returned(status, value) == [status |-> status, value |-> value]

\* An invocation that fails: an Err return, a failed require_auth, or a trap.
\* The host commits none of its writes; `written` names the keys the handler
\* had set before it failed.  The history keeps the entry point and the status
\* of a failed call, and the arguments of a committed one.
Reject(c, status, written) ==
    /\ call' = [op |-> c.op]
    /\ result' = Returned(status, NoId)
    /\ discarded' = written
    /\ UNCHANGED <<store, now, overflowChecks, executions, checkpoints, activity>>

\* Integer overflow: a trap when the build checks, else the low 64 bits.
Traps(x) == overflowChecks /\ Overflows(x)

InitialStats ==
    [total_campaigns |-> 0, total_donations |-> 0, total_raised |-> Zero64,
     total_nfts |-> 0, active_campaigns |-> 0]

\* sha256 over the concatenated inputs, taken as injective on the input tuple.
generate_id(inputs) == inputs

Init ==
    /\ admin = NoAddress
    /\ platformFee = {}
    /\ campaignCounter = 0
    /\ donationCounter = 0
    /\ nftCounter = 0
    /\ disbursementCounter = 0
    /\ stats = InitialStats
    /\ campaigns = Empty
    /\ donations = Empty
    /\ trustScores = Empty
    /\ nfts = Empty
    /\ disbursements = Empty
    /\ now = 0
    /\ overflowChecks \in BOOLEAN
    /\ call = [op |-> "none"]
    /\ result = Returned("None", NoId)
    /\ discarded = {}
    /\ executions = Empty
    /\ checkpoints = Empty
    /\ activity = Empty
    /\ calls = 0

\* ------------------------------------------------------------ initialize
MaxFeeBps == 1000

\* initialize without its has(Admin) test.
initialize_check_repeatable(admin_, platform_fee, signer) ==
    IF platform_fee > MaxFeeBps THEN "InvalidFee"
    ELSE IF signer # admin_ THEN "AuthFailed"
    ELSE "Ok"

initialize_check(admin_, platform_fee, signer) ==
    IF admin # NoAddress THEN "AlreadyInitialized"
    ELSE IF platform_fee > MaxFeeBps THEN "InvalidFee"
    ELSE IF signer # admin_ THEN "AuthFailed"
    ELSE "Ok"

initialize(admin_, platform_fee, signer) ==
    LET c == [op |-> "initialize", admin |-> admin_, platform_fee |-> platform_fee,
              signer |-> signer]
        e == initialize_check(admin_, platform_fee, signer)
    IN  IF e # "Ok" THEN Reject(c, e, {})
        ELSE /\ admin' = admin_
             /\ platformFee' = {platform_fee}
             /\ campaignCounter' = 0
             /\ donationCounter' = 0
             /\ nftCounter' = 0
             /\ disbursementCounter' = 0
             /\ stats' = InitialStats
             /\ call' = c
             /\ discarded' = {}
             /\ result' = Returned("Ok", NoId)
             /\ UNCHANGED <<campaigns, donations, trustScores, nfts, disbursements,
                            now, overflowChecks, executions, checkpoints, activity>>

\* --------------------------------------------------------------- history
\* What an address has done so far: its successful donations, the exact sum
\* of their net amounts, and its successful create_campaign calls.
ActivityOf(a) ==
    IF a \in DOMAIN activity THEN activity[a]
    ELSE [donations |-> 0, donated |-> Pad(Zero64, Limbs + 2), campaigns |-> 0]

\* ----------------------------------------------------------- trust score
NewTrustScore(entity) ==
    [entity |-> entity, score |-> 50, verification_level |-> 0,
     donation_count |-> 0, total_donated |-> Zero64, campaigns_created |-> 0,
     last_updated |-> now]

\* create_trust_score: the record if absent; ScoreExists otherwise.
create_trust_score(ts, entity) ==
    IF entity \in DOMAIN ts THEN [err |-> "ScoreExists", ts |-> ts]
    ELSE [err |-> "Ok", ts |-> Put(ts, entity, NewTrustScore(entity))]

\* create_campaign calling create_trust_score without the has() test.
ensure_trust_score_unguarded(ts, entity) == create_trust_score(ts, entity)

\* create_campaign's "initialize trust score if not exists".
ensure_trust_score(ts, entity) ==
    IF entity \notin DOMAIN ts THEN create_trust_score(ts, entity)
    ELSE [err |-> "Ok", ts |-> ts]

ScoreCap == 100

donor_score(donation_count, total_donated) ==
    LET donation_factor   == Min(donation_count, 100)
        amount_factor     == MinSmall(DivRem(total_donated, 1000).q, 100)
        consistency_bonus == IF donation_count > 1 THEN 5 ELSE 0
        new_score == 50 + ((donation_factor * 30) \div 100)
                        + ((amount_factor * 15) \div 100) + consistency_bonus
    IN  Min(new_score, ScoreCap)

update_donor_trust_score(ts, donor, amount) ==
    LET old   == IF donor \in DOMAIN ts THEN ts[donor] ELSE NewTrustScore(donor)
        count == old.donation_count + 1
        total == Low64(AddC(old.total_donated, amount, 0))
    IN  Put(ts, donor,
            [old EXCEPT !.donation_count = count,
                        !.total_donated = total,
                        !.last_updated = now,
                        !.score = donor_score(count, total)])

\* update_beneficiary_trust_score without its .min(100).
beneficiary_score_unclamped(score, campaigns_created) ==
    score + Min(campaigns_created, 20)

\* update_beneficiary_trust_score adding 1 instead of the campaign factor.
beneficiary_score_unit_boost(score, campaigns_created) ==
    Min(score + 1, ScoreCap)

beneficiary_score(score, campaigns_created) ==
    LET campaign_factor == Min(campaigns_created, 20)
    IN  Min(score + campaign_factor, ScoreCap)

update_beneficiary_trust_score(ts, beneficiary) ==
    LET old == IF beneficiary \in DOMAIN ts THEN ts[beneficiary]
               ELSE NewTrustScore(beneficiary)
        created == old.campaigns_created + 1
    IN  Put(ts, beneficiary,
            [old EXCEPT !.campaigns_created = created,
                        !.last_updated = now,
                        !.score = beneficiary_score(old.score, created)])

\* ------------------------------------------------------- create_campaign
SecondsPerDay == 86400
MaxDurationDays == 365

\* create_campaign testing the duration before the goal.
create_campaign_check_duration_first(beneficiary, title, description, goal_amount, duration_days, signer) ==
    IF signer # beneficiary THEN "AuthFailed"
    ELSE IF duration_days = 0 \/ duration_days > MaxDurationDays THEN "InvalidDuration"
    ELSE IF goal_amount = 0 THEN "InvalidGoal"
    ELSE IF title = "" \/ description = "" THEN "InvalidInput"
    ELSE "Ok"

create_campaign_check(beneficiary, title, description, goal_amount, duration_days, signer) ==
    IF signer # beneficiary THEN "AuthFailed"
    ELSE IF goal_amount = 0 THEN "InvalidGoal"
    ELSE IF duration_days = 0 \/ duration_days > MaxDurationDays THEN "InvalidDuration"
    ELSE IF title = "" \/ description = "" THEN "InvalidInput"
    ELSE "Ok"

create_campaign_commit(c, beneficiary, title, description, goal_amount, duration_days, category, location) ==
    LET new_counter == campaignCounter + 1
        campaign_id == generate_id(<<beneficiary, title, goal_amount, now, new_counter>>)
        campaign ==
            [id |-> campaign_id, title |-> title, description |-> description,
             beneficiary |-> beneficiary, goal_amount |-> goal_amount,
             current_amount |-> Zero64, start_time |-> now,
             end_time |-> now + duration_days * SecondsPerDay,
             verified |-> FALSE, trust_score |-> 0, category |-> category,
             location |-> location, active |-> TRUE]
        ensured == ensure_trust_score(trustScores, beneficiary)
    IN  IF ensured.err # "Ok"
        THEN Reject(c, ensured.err, {"CampaignCounter", "Campaign", "Stats"})
        ELSE
        /\ campaignCounter' = new_counter
        /\ campaigns' = Put(campaigns, campaign_id, campaign)
        /\ stats' = [stats EXCEPT !.total_campaigns = @ + 1,
                                  !.active_campaigns = @ + 1]
        /\ trustScores' = update_beneficiary_trust_score(ensured.ts, beneficiary)
        /\ activity' = Put(activity, beneficiary,
                           [ActivityOf(beneficiary) EXCEPT !.campaigns = @ + 1])
        /\ call' = c
        /\ discarded' = {}
        /\ result' = Returned("Ok", campaign_id)
        /\ UNCHANGED <<admin, platformFee, donationCounter, nftCounter,
                       disbursementCounter, donations, nfts, disbursements, now,
                       overflowChecks, executions, checkpoints>>

create_campaign(beneficiary, title, description, goal_amount, duration_days, category, location, signer) ==
    LET c == [op |-> "create_campaign", beneficiary |-> beneficiary,
              title |-> title, description |-> description,
              goal_amount |-> goal_amount, duration_days |-> duration_days,
              signer |-> signer]
        e == create_campaign_check(beneficiary, title, description, goal_amount,
                                   duration_days, signer)
    IN  IF e # "Ok" THEN Reject(c, e, {})
        ELSE create_campaign_commit(c, beneficiary, title, description,
                                    goal_amount, duration_days, category, location)

\* ------------------------------------------------------- verify_campaign
\* verify_campaign looking the campaign up before the admin.
verify_campaign_check_lookup_first(campaign_id, signer) ==
    IF campaign_id \notin DOMAIN campaigns THEN "CampaignNotFound"
    ELSE IF admin = NoAddress THEN "Unauthorized"
    ELSE IF signer # admin THEN "AuthFailed"
    ELSE "Ok"

verify_campaign_check(campaign_id, signer) ==
    IF admin = NoAddress THEN "Unauthorized"
    ELSE IF signer # admin THEN "AuthFailed"
    ELSE IF campaign_id \notin DOMAIN campaigns THEN "CampaignNotFound"
    ELSE "Ok"

verify_campaign(campaign_id, trust_score, signer) ==
    LET c == [op |-> "verify_campaign", campaign_id |-> campaign_id,
              trust_score |-> trust_score, signer |-> signer]
        e == verify_campaign_check(campaign_id, signer)
    IN  IF e # "Ok" THEN Reject(c, e, {})
        ELSE /\ campaigns' = [campaigns EXCEPT ![campaign_id] =
                                 [@ EXCEPT !.verified = TRUE,
                                           !.trust_score = Min(trust_score, 100)]]
             /\ call' = c
             /\ discarded' = {}
             /\ result' = Returned("Ok", NoId)
             /\ UNCHANGED <<admin, platformFee, campaignCounter, donationCounter,
                            nftCounter, disbursementCounter, stats, donations,
                            trustScores, nfts, disbursements, now, overflowChecks,
                            executions, checkpoints, activity>>

\* ----------------------------------------------------------------- donate
DefaultFeeBps == 200
BpsDenominator == 10000

\* storage().instance().get(PlatformFee).unwrap_or(200)
FeeRate == IF platformFee = {} THEN DefaultFeeBps ELSE CHOOSE f \in platformFee : TRUE

\* amount * platform_fee_rate, exact (five limbs).
FeeProduct(amount, rate) == MulC(amount, rate, 0)

\* (amount * platform_fee_rate) / 10000 in u64 arithmetic.
PlatformFeeOf(amount, rate) == DivRem(Low64(FeeProduct(amount, rate)), BpsDenominator).q

NetAmount(amount, rate) == SubB(amount, PlatformFeeOf(amount, rate), 0)

get_badge_type(amount) ==
    IF Less(amount, U64(1000)) THEN "Bronze Supporter"
    ELSE IF Less(amount, U64(5000)) THEN "Silver Supporter"
    ELSE IF Less(amount, U64(10000)) THEN "Gold Supporter"
    ELSE IF Less(amount, U64(50000)) THEN "Platinum Supporter"
    ELSE "Diamond Supporter"

donate_check(campaign_id, donor, amount, signer) ==
    IF signer # donor THEN "AuthFailed"
    ELSE IF campaign_id \notin DOMAIN campaigns THEN "CampaignNotFound"
    ELSE IF ~campaigns[campaign_id].active THEN "CampaignInactive"
    ELSE IF now > campaigns[campaign_id].end_time THEN "CampaignEnded"
    ELSE IF amount = Zero64 THEN "InvalidAmount"
    ELSE "Ok"

\* The first of donate's four u64 operations that overflows on a checking
\* build (0: none), in the order the handler performs them.
donate_trap_site(campaign_id, donor, amount) ==
    LET net   == NetAmount(amount, FeeRate)
        total == IF donor \in DOMAIN trustScores
                 THEN trustScores[donor].total_donated ELSE Zero64
    IN  IF Traps(FeeProduct(amount, FeeRate)) THEN 1
        ELSE IF Traps(AddC(campaigns[campaign_id].current_amount, net, 0)) THEN 2
        ELSE IF Traps(AddC(stats.total_raised, net, 0)) THEN 3
        ELSE IF Traps(AddC(total, net, 0)) THEN 4
        ELSE 0

\* What donate has written when it traps at a site.
donate_written(site) ==
    IF site = 1 THEN {}
    ELSE IF site = 2 THEN {"DonationCounter"}
    ELSE IF site = 3 THEN {"DonationCounter", "Campaign", "Donation"}
    ELSE {"DonationCounter", "Campaign", "Donation", "Stats"}

\* How an invocation of donate ends: an error of its checks, a trap of its
\* arithmetic, or Ok.
donate_outcome(campaign_id, donor, amount, signer) ==
    LET e == donate_check(campaign_id, donor, amount, signer)
    IN  IF e # "Ok" THEN e
        ELSE IF donate_trap_site(campaign_id, donor, amount) # 0 THEN "Trap"
        ELSE "Ok"

donate_commit(c, campaign_id, donor, amount, anonymous, mint_nft) ==
    LET net_amount  == NetAmount(amount, FeeRate)
        new_counter == donationCounter + 1
        donation_id == generate_id(<<campaign_id, donor, amount, now, new_counter>>)
        donation ==
            [id |-> donation_id, campaign_id |-> campaign_id, donor |-> donor,
             amount |-> net_amount, timestamp |-> now, nft_minted |-> mint_nft,
             anonymous |-> anonymous]
        new_nft_counter == nftCounter + 1
        nft_id == generate_id(<<donor, campaign_id, donation_id, net_amount,
                                new_nft_counter>>)
        nft_badge ==
            [id |-> nft_id, owner |-> donor, badge_type |-> get_badge_type(net_amount),
             campaign_id |-> campaign_id, minted_at |-> now,
             metadata_uri |-> "https://savia.org/nft/metadata"]
    IN  /\ donationCounter' = new_counter
        /\ campaigns' = [campaigns EXCEPT ![campaign_id].current_amount =
                                              Low64(AddC(@, net_amount, 0))]
        /\ donations' = Put(donations, donation_id, donation)
        /\ trustScores' = update_donor_trust_score(trustScores, donor, net_amount)
        /\ activity' = Put(activity, donor,
                           [ActivityOf(donor) EXCEPT
                               !.donations = @ + 1,
                               !.donated = Pad(Plus(@, net_amount), Limbs + 2)])
        /\ nftCounter' = IF mint_nft THEN new_nft_counter ELSE nftCounter
        /\ nfts' = IF mint_nft THEN Put(nfts, nft_id, nft_badge) ELSE nfts
        /\ stats' = [stats EXCEPT
                        !.total_donations = @ + 1,
                        !.total_raised = Low64(AddC(@, net_amount, 0)),
                        !.total_nfts = IF mint_nft THEN @ + 1 ELSE @]
        /\ call' = c
        /\ discarded' = {}
        /\ result' = Returned("Ok", donation_id)
        /\ UNCHANGED <<admin, platformFee, campaignCounter, disbursementCounter,
                       disbursements, now, overflowChecks, executions, checkpoints>>

donate(campaign_id, donor, amount, anonymous, mint_nft, signer) ==
    LET c == [op |-> "donate", campaign_id |-> campaign_id, donor |-> donor,
              amount |-> amount, anonymous |-> anonymous, mint_nft |-> mint_nft,
              signer |-> signer]
        e == donate_outcome(campaign_id, donor, amount, signer)
    IN  IF e = "Ok"
        THEN donate_commit(c, campaign_id, donor, amount, anonymous, mint_nft)
        ELSE IF e = "Trap"
        THEN Reject(c, e, donate_written(donate_trap_site(campaign_id, donor, amount)))
        ELSE Reject(c, e, {})

\* ------------------------------------------- authorization checkpoints
\* The checkpoints a disbursement id has passed, in order: 1 a
\* create_disbursement authorized by the campaign's beneficiary, 2 then an
\* approve_disbursement authorized by the admin, 3 then an
\* execute_disbursement authorized by the recipient.
Checkpoint(id) == IF id \in DOMAIN checkpoints THEN checkpoints[id] ELSE 0

\* A committed call signed by `signer` where `principal` is the address whose
\* authorization the checkpoint asks for.
Pass(id, stage, signer, principal) ==
    IF signer = principal /\ Checkpoint(id) = stage - 1
    THEN Put(checkpoints, id, stage)
    ELSE checkpoints

\* --------------------------------------------------- create_disbursement
\* create_disbursement without its funds test.
create_disbursement_check_no_funds(campaign_id, amount, signer) ==
    IF campaign_id \notin DOMAIN campaigns THEN "CampaignNotFound"
    ELSE IF signer # campaigns[campaign_id].beneficiary THEN "AuthFailed"
    ELSE "Ok"

create_disbursement_check(campaign_id, amount, signer) ==
    IF campaign_id \notin DOMAIN campaigns THEN "CampaignNotFound"
    ELSE IF signer # campaigns[campaign_id].beneficiary THEN "AuthFailed"
    ELSE IF Less(campaigns[campaign_id].current_amount, amount) THEN "InsufficientFunds"
    ELSE "Ok"

create_disbursement(campaign_id, recipient, amount, milestone, signer) ==
    LET c == [op |-> "create_disbursement", campaign_id |-> campaign_id,
              recipient |-> recipient, amount |-> amount, milestone |-> milestone,
              signer |-> signer]
        e == create_disbursement_check(campaign_id, amount, signer)
        new_counter == disbursementCounter + 1
        disbursement_id == generate_id(<<campaign_id, recipient, amount, milestone,
                                         new_counter>>)
        disbursement ==
            [id |-> disbursement_id, campaign_id |-> campaign_id,
             recipient |-> recipient, amount |-> amount, milestone |-> milestone,
             status |-> "Pending", created_at |-> now, executed_at |-> {}]
    IN  IF e # "Ok" THEN Reject(c, e, {})
        ELSE /\ disbursementCounter' = new_counter
             /\ disbursements' = Put(disbursements, disbursement_id, disbursement)
             /\ checkpoints' = Pass(disbursement_id, 1, signer,
                                    campaigns[campaign_id].beneficiary)
             /\ call' = c
             /\ discarded' = {}
             /\ result' = Returned("Ok", disbursement_id)
             /\ UNCHANGED <<admin, platformFee, campaignCounter, donationCounter,
                            nftCounter, stats, campaigns, donations, trustScores,
                            nfts, now, overflowChecks, executions, activity>>

\* -------------------------------------------------- approve_disbursement
\* approve_disbursement without admin.require_auth().
approve_disbursement_check_no_auth(disbursement_id, signer) ==
    IF admin = NoAddress THEN "Unauthorized"
    ELSE IF disbursement_id \notin DOMAIN disbursements THEN "DisbursementNotFound"
    ELSE "Ok"

approve_disbursement_check(disbursement_id, signer) ==
    IF admin = NoAddress THEN "Unauthorized"
    ELSE IF signer # admin THEN "AuthFailed"
    ELSE IF disbursement_id \notin DOMAIN disbursements THEN "DisbursementNotFound"
    ELSE "Ok"

approve_disbursement(disbursement_id, signer) ==
    LET c == [op |-> "approve_disbursement", disbursement_id |-> disbursement_id,
              signer |-> signer]
        e == approve_disbursement_check(disbursement_id, signer)
    IN  IF e # "Ok" THEN Reject(c, e, {})
        ELSE /\ disbursements' = [disbursements EXCEPT
                                     ![disbursement_id].status = "Approved"]
             /\ checkpoints' = Pass(disbursement_id, 2, signer, admin)
             /\ call' = c
             /\ discarded' = {}
             /\ result' = Returned("Ok", NoId)
             /\ UNCHANGED <<admin, platformFee, campaignCounter, donationCounter,
                            nftCounter, disbursementCounter, stats, campaigns,
                            donations, trustScores, nfts, now, overflowChecks,
                            executions, activity>>

\* -------------------------------------------------- execute_disbursement
\* execute_disbursement without its status test.
execute_disbursement_check_any_status(disbursement_id, signer) ==
    IF disbursement_id \notin DOMAIN disbursements THEN "DisbursementNotFound"
    ELSE IF signer # disbursements[disbursement_id].recipient THEN "AuthFailed"
    ELSE "Ok"

\* execute_disbursement without disbursement.recipient.require_auth().
execute_disbursement_check_no_auth(disbursement_id, signer) ==
    IF disbursement_id \notin DOMAIN disbursements THEN "DisbursementNotFound"
    ELSE IF disbursements[disbursement_id].status # "Approved" THEN "NotApproved"
    ELSE "Ok"

execute_disbursement_check(disbursement_id, signer) ==
    IF disbursement_id \notin DOMAIN disbursements THEN "DisbursementNotFound"
    ELSE IF signer # disbursements[disbursement_id].recipient THEN "AuthFailed"
    ELSE IF disbursements[disbursement_id].status # "Approved" THEN "NotApproved"
    ELSE "Ok"

execute_disbursement(disbursement_id, signer) ==
    LET c == [op |-> "execute_disbursement", disbursement_id |-> disbursement_id,
              signer |-> signer]
        e == execute_disbursement_check(disbursement_id, signer)
    IN  IF e # "Ok" THEN Reject(c, e, {})
        ELSE /\ disbursements' = [disbursements EXCEPT
                                     ![disbursement_id].status = "Executed",
                                     ![disbursement_id].executed_at = {now}]
             /\ executions' = Put(executions, disbursement_id,
                                  IF disbursement_id \in DOMAIN executions
                                  THEN executions[disbursement_id] + 1 ELSE 1)
             /\ checkpoints' = Pass(disbursement_id, 3, signer,
                                    disbursements[disbursement_id].recipient)
             /\ call' = c
             /\ discarded' = {}
             /\ result' = Returned("Ok", NoId)
             /\ UNCHANGED <<admin, platformFee, campaignCounter, donationCounter,
                            nftCounter, disbursementCounter, stats, campaigns,
                            donations, trustScores, nfts, now, overflowChecks,
                            activity>>

\* -------------------------------------------------------- close_campaign
close_campaign_check(campaign_id, signer) ==
    IF campaign_id \notin DOMAIN campaigns THEN "CampaignNotFound"
    ELSE IF signer # campaigns[campaign_id].beneficiary THEN "AuthFailed"
    ELSE IF ~campaigns[campaign_id].active THEN "CampaignInactive"
    ELSE "Ok"

close_campaign(campaign_id, signer) ==
    LET c == [op |-> "close_campaign", campaign_id |-> campaign_id,
              signer |-> signer]
        e == close_campaign_check(campaign_id, signer)
    IN  IF e # "Ok" THEN Reject(c, e, {})
        ELSE /\ campaigns' = [campaigns EXCEPT ![campaign_id].active = FALSE]
             /\ stats' = [stats EXCEPT !.active_campaigns =
                                          IF @ > 0 THEN @ - 1 ELSE 0]
             /\ call' = c
             /\ discarded' = {}
             /\ result' = Returned("Ok", NoId)
             /\ UNCHANGED <<admin, platformFee, campaignCounter, donationCounter,
                            nftCounter, disbursementCounter, donations,
                            trustScores, nfts, disbursements, now, overflowChecks,
                            executions, checkpoints, activity>>

\* ------------------------------------------------------------------ clock
\* The host's ledger time moves forward between invocations.
Tick(times) ==
    /\ \E t \in times : t > now /\ now' = t
    /\ call' = [op |-> "tick"]
    /\ result' = Returned("None", NoId)
    /\ discarded' = {}
    /\ UNCHANGED <<store, overflowChecks, executions, checkpoints, activity>>

\* ----------------------------------------------------------- input sets
\* Identifiers no creating call returns (its counter field is 0).
UnknownCampaign == <<"GB", "T", 10000, 0, 0>>
UnknownDisbursement == <<UnknownCampaign, "GA", Zero64, "M", 0>>

\* The identifiers an entry point is invoked on: the stored ones and an unknown
\* one, or the unknown one alone for an entry point outside the focus of the
\* specification.
CampaignIds(I, op) ==
    IF op \in I.focus THEN DOMAIN campaigns \cup {UnknownCampaign}
    ELSE {UnknownCampaign}
DisbursementIds(I, op) ==
    IF op \in I.focus THEN DOMAIN disbursements \cup {UnknownDisbursement}
    ELSE {UnknownDisbursement}

EntryPoints ==
    {"verify_campaign", "donate", "create_disbursement", "approve_disbursement",
     "execute_disbursement", "close_campaign"}

\* The inputs of one specification: for every entry point the argument
\* tuples its invocations are drawn from, and the caps on the counters.
Inputs ==
    [focus         |-> EntryPoints,
     signers       |-> {"GA", "GB"},
     initialize    |-> {"GA"} \X {1000, 1001},
     campaign      |-> {<<"GB", "T", "D", 10000, 1>>,
                        <<"GB", "T", "D", 0, 0>>,
                        <<"GB", "", "D", 10000, 366>>,
                        <<"GB", "T", "", 10000, 1>>},
     donors        |-> {"GA"},
     amounts       |-> {Zero64, U64(1000), U64Max},
     flags         |-> {<<FALSE, TRUE>>},
     recipients    |-> {"GA"},
     disbursed     |-> {Zero64, U64(981)},
     scores        |-> {101},
     times         |-> {86401},
     maxCalls         |-> MaxCalls,
     maxCampaigns     |-> MaxCampaigns,
     maxDonations     |-> MaxDonations,
     maxDisbursements |-> MaxDisbursements]

DisbInputs ==
    [focus         |-> {"donate", "create_disbursement", "approve_disbursement",
                        "execute_disbursement"},
     signers       |-> {"GA", "GB"},
     initialize    |-> {"GA"} \X {1000},
     campaign      |-> {<<"GB", "T", "D", 10000, 1>>},
     donors        |-> {"GA"},
     amounts       |-> {U64(1000)},
     flags         |-> {<<FALSE, FALSE>>},
     recipients    |-> {"GA"},
     disbursed     |-> {U64(980), U64(981)},
     scores        |-> {85},
     times         |-> {86401},
     maxCalls         |-> DisbMaxCalls,
     maxCampaigns     |-> DisbMaxCampaigns,
     maxDonations     |-> DisbMaxDonations,
     maxDisbursements |-> MaxDisbursements]

TrustInputs ==
    [focus         |-> {"donate"},
     signers       |-> {"GA", "GB"},
     initialize    |-> {"GA"} \X {1001},
     campaign      |-> {<<"GA", "T", "D", 10000, 1>>},
     donors        |-> {"GA"},
     amounts       |-> {U64(200000)},
     flags         |-> {<<FALSE, FALSE>>},
     recipients    |-> {"GA"},
     disbursed     |-> {Zero64},
     scores        |-> {85},
     times         |-> {86401},
     maxCalls         |-> TrustMaxCalls,
     maxCampaigns     |-> TrustMaxCampaigns,
     maxDonations     |-> TrustMaxDonations,
     maxDisbursements |-> MaxDisbursements]

ScoreInputs ==
    [focus         |-> {"donate"},
     signers       |-> {"GA", "GB"},
     initialize    |-> {"GA"} \X {1000},
     campaign      |-> {<<"GA", "T", "D", 10000, 1>>, <<"GB", "T", "D", 10000, 1>>},
     donors        |-> {"GA", "GB"},
     amounts       |-> {U64(1000)},
     flags         |-> {<<FALSE, FALSE>>},
     recipients    |-> {"GA"},
     disbursed     |-> {Zero64},
     scores        |-> {85},
     times         |-> {86401},
     maxCalls         |-> ScoreMaxCalls,
     maxCampaigns     |-> ScoreMaxCampaigns,
     maxDonations     |-> ScoreMaxDonations,
     maxDisbursements |-> MaxDisbursements]

NftInputs ==
    [focus         |-> {"donate"},
     signers       |-> {"GA", "GB"},
     initialize    |-> {"GA"} \X {200},
     campaign      |-> {<<"GB", "T", "D", 10000, 1>>},
     donors        |-> {"GA"},
     amounts       |-> {U64(1000), U64(1019), U64(1020), U64(5101), U64(5102),
                        U64(10203), U64(10204), U64(51019), U64(51020)},
     flags         |-> {<<FALSE, FALSE>>, <<FALSE, TRUE>>},
     recipients    |-> {"GA"},
     disbursed     |-> {Zero64},
     scores        |-> {85},
     times         |-> {86401},
     maxCalls         |-> NftMaxCalls,
     maxCampaigns     |-> NftMaxCampaigns,
     maxDonations     |-> NftMaxDonations,
     maxDisbursements |-> MaxDisbursements]

CampInputs ==
    [focus         |-> {"verify_campaign", "donate", "close_campaign"},
     signers       |-> {"GA", "GB"},
     initialize    |-> {"GA"} \X {200},
     campaign      |-> {<<"GB", "T", "D", 10000, 1>>, <<"GB", "T", "D", 10000, 365>>},
     donors        |-> {"GA"},
     amounts       |-> {U64(1000)},
     flags         |-> {<<FALSE, FALSE>>},
     recipients    |-> {"GA"},
     disbursed     |-> {Zero64},
     scores        |-> {85, 101},
     times         |-> {86401},
     maxCalls         |-> CampMaxCalls,
     maxCampaigns     |-> CampMaxCampaigns,
     maxDonations     |-> CampMaxDonations,
     maxDisbursements |-> MaxDisbursements]

\* A successful invocation counts against the budget of its specification.
Counted(I) ==
    /\ calls' = IF result'.status = "Ok" THEN calls + 1 ELSE calls
    /\ calls' <= I.maxCalls

NextOf(I) ==
    \/ \E a \in I.initialize, s \in I.signers :
          initialize(a[1], a[2], s) /\ Counted(I)
    \/ \E a \in I.campaign, s \in I.signers :
          /\ campaignCounter < I.maxCampaigns
             \/ create_campaign_check(a[1], a[2], a[3], a[4], a[5], s) # "Ok"
          /\ create_campaign(a[1], a[2], a[3], a[4], a[5], "Health", "City", s)
          /\ Counted(I)
    \/ \E id \in CampaignIds(I, "verify_campaign"), t \in I.scores,
          s \in I.signers :
          verify_campaign(id, t, s) /\ Counted(I)
    \/ \E id \in CampaignIds(I, "donate"), d \in I.donors, a \in I.amounts,
          f \in I.flags, s \in I.signers :
          /\ donationCounter < I.maxDonations
             \/ donate_check(id, d, a, s) # "Ok"
          /\ donate(id, d, a, f[1], f[2], s)
          /\ Counted(I)
    \/ \E id \in CampaignIds(I, "create_disbursement"), r \in I.recipients,
          a \in I.disbursed, s \in I.signers :
          /\ disbursementCounter < I.maxDisbursements
             \/ create_disbursement_check(id, a, s) # "Ok"
          /\ create_disbursement(id, r, a, "M", s)
          /\ Counted(I)
    \/ \E id \in DisbursementIds(I, "approve_disbursement"), s \in I.signers :
          approve_disbursement(id, s) /\ Counted(I)
    \/ \E id \in DisbursementIds(I, "execute_disbursement"), s \in I.signers :
          execute_disbursement(id, s) /\ Counted(I)
    \/ \E id \in CampaignIds(I, "close_campaign"), s \in I.signers :
          close_campaign(id, s) /\ Counted(I)
    \/ Tick(I.times) /\ UNCHANGED calls

Next == NextOf(Inputs)
NextDisb == NextOf(DisbInputs)
NextTrust == NextOf(TrustInputs)
NextScore == NextOf(ScoreInputs)
NextNft == NextOf(NftInputs)
NextCamp == NextOf(CampInputs)

Spec == Init /\ [][Next]_vars
SpecDisb == Init /\ [][NextDisb]_vars
SpecTrust == Init /\ [][NextTrust]_vars
SpecScore == Init /\ [][NextScore]_vars
SpecNft == Init /\ [][NextNft]_vars
SpecCamp == Init /\ [][NextCamp]_vars

\* ------------------------------------------------------------ properties
\* The errors of the contract's taxonomy (SaviaError).
SaviaErrors ==
    {"InvalidFee", "InvalidGoal", "InvalidDuration", "CampaignNotFound",
     "CampaignEnded", "InvalidAmount", "ScoreExists", "InsufficientFunds",
     "DisbursementNotFound", "NotApproved", "Unauthorized", "CampaignInactive",
     "InvalidInput", "AlreadyInitialized"}

\* The exact sum of the amounts of the records of f with keys in S.
RECURSIVE SumAmounts(_, _)
SumAmounts(f, S) ==
    IF S = {} THEN <<0>>
    ELSE LET x == CHOOSE y \in S : TRUE
         IN  Plus(f[x].amount, SumAmounts(f, S \ {x}))

DonationsOf(c) == {d \in DOMAIN donations : donations[d].campaign_id = c}

ExecutedOf(c) ==
    {d \in DOMAIN disbursements :
        /\ disbursements[d].campaign_id = c
        /\ disbursements[d].status = "Executed"}

\* floor(g * r / 10000) in exact arithmetic.
ExactFee(g, r) == DivRem(FeeProduct(g, r), BpsDenominator).q

\* C1: in every reachable state, every campaign's current_amount equals the
\* sum of the stored amounts of the Donation records that reference it.
C1_CurrentAmountIsDonationSum ==
    \A c \in DOMAIN campaigns :
        Same(campaigns[c].current_amount, SumAmounts(donations, DonationsOf(c)))

\* C2: after a successful donate of gross amount g at fee rate r, the stored
\* Donation amount plus floor(g*r/10000), computed exactly, equals g.
C2_NetPlusExactFeeIsGross ==
    (call.op = "donate" /\ result.status = "Ok") =>
        Same(Plus(donations[result.value].amount, ExactFee(call.amount, FeeRate)),
             call.amount)

\* C3: execute_disbursement succeeds at most once for any disbursement id.
C3_ExecutesAtMostOnce ==
    \A d \in DOMAIN executions : executions[d] <= 1

\* C4: the only status changes made to an existing disbursement are Pending to
\* Approved and Approved to Executed; Executed is terminal.
C4_StatusOneDirectional ==
    [][\A d \in DOMAIN disbursements :
          /\ d \in DOMAIN disbursements'
          /\ \/ disbursements'[d].status = disbursements[d].status
             \/ <<disbursements[d].status, disbursements'[d].status>>
                    \in {<<"Pending", "Approved">>, <<"Approved", "Executed">>}]_vars

\* C5: a disbursement becomes Executed only from Approved: execute_disbursement
\* succeeds only on an Approved disbursement, and, authorized by the recipient
\* on a disbursement with any other status, it fails with NotApproved and
\* leaves the disbursements unchanged.
C5_ExecuteOnlyFromApproved ==
    /\ [](\A d \in DOMAIN disbursements :
             disbursements[d].status # "Approved"
             => execute_disbursement_check(d, disbursements[d].recipient)
                    = "NotApproved")
    /\ [][/\ \A d \in DOMAIN disbursements' :
                (/\ disbursements'[d].status = "Executed"
                 /\ (d \in DOMAIN disbursements =>
                        disbursements[d].status # "Executed"))
                => (/\ d \in DOMAIN disbursements
                    /\ disbursements[d].status = "Approved")
          /\ (call'.op = "execute_disbursement" /\ result'.status = "Ok")
                => disbursements[call'.disbursement_id].status = "Approved"
          /\ (call'.op = "execute_disbursement" /\ result'.status = "NotApproved")
                => /\ disbursements' = disbursements
                   /\ executions' = executions]_vars

C5_Witness ==
    /\ call.op = "execute_disbursement"
    /\ result.status = "NotApproved"
    /\ \E d \in DOMAIN disbursements : disbursements[d].status = "Executed"
    /\ \E d \in DOMAIN disbursements : disbursements[d].status = "Pending"

\* C6: create_disbursement never succeeds with amount > the campaign's
\* current_amount: authorized by the beneficiary it fails with
\* InsufficientFunds, creating no record and leaving the counter; on an
\* unknown campaign it fails with CampaignNotFound.
C6_NoDisbursementBeyondFunds ==
    /\ [](/\ \A c \in DOMAIN campaigns, a \in DisbInputs.disbursed \cup {U64Max} :
                Less(campaigns[c].current_amount, a)
                => create_disbursement_check(c, a, campaigns[c].beneficiary)
                       = "InsufficientFunds"
          /\ \A a \in DisbInputs.disbursed, s \in DisbInputs.signers :
                create_disbursement_check(UnknownCampaign, a, s)
                    = "CampaignNotFound")
    /\ [][/\ (call'.op = "create_disbursement" /\ result'.status = "Ok")
                => /\ call'.campaign_id \in DOMAIN campaigns
                   /\ Leq(call'.amount,
                          campaigns[call'.campaign_id].current_amount)
          /\ (/\ call'.op = "create_disbursement"
              /\ result'.status \in {"InsufficientFunds", "CampaignNotFound"})
                => /\ disbursements' = disbursements
                   /\ disbursementCounter' = disbursementCounter]_vars

C6_Witness ==
    /\ call.op = "create_disbursement"
    /\ result.status = "InsufficientFunds"
    /\ \E c \in DOMAIN campaigns : campaigns[c].current_amount # Zero64

\* C7: for every campaign, the amounts of its Executed disbursements sum to at
\* most its current_amount.
C7_ExecutedWithinRaised ==
    \A c \in DOMAIN campaigns :
        Leq(SumAmounts(disbursements, ExecutedOf(c)), campaigns[c].current_amount)

\* C8: the score of every stored TrustScore record is in [0, 100].
C8_ScoreBounded ==
    \A a \in DOMAIN trustScores :
        trustScores[a].score >= 0 /\ trustScores[a].score <= 100

\* A record whose campaign boosts have run into the cap.
C8_Witness ==
    \E a \in DOMAIN trustScores :
        /\ trustScores[a].score = 100
        /\ trustScores[a].campaigns_created >= 9

\* C9: an invocation that returns an error of the taxonomy leaves the whole
\* store as it was, and had written nothing before it failed.
C9_ErrorsChangeNothing ==
    [][result'.status \in SaviaErrors =>
          /\ store' = store
          /\ discarded' = {}]_vars

C9_Witness ==
    /\ result.status = "InvalidAmount"
    /\ campaignCounter > 0
    /\ \E a \in DOMAIN trustScores : trustScores[a].campaigns_created > 1

\* C10: once initialize has succeeded, every initialize fails with
\* AlreadyInitialized and changes nothing; initialize with a fee above 1000
\* fails with InvalidFee; the stored fee rate is at most 1000.
C10_InitializeOnce ==
    /\ [](/\ \A f \in platformFee : f <= 1000
          /\ \A a \in Inputs.initialize, s \in Inputs.signers :
                /\ admin # NoAddress
                      => initialize_check(a[1], a[2], s) = "AlreadyInitialized"
                /\ (admin = NoAddress /\ a[2] > 1000)
                      => initialize_check(a[1], a[2], s) = "InvalidFee")
    /\ [][/\ (call'.op = "initialize" /\ admin # NoAddress)
                => /\ result'.status = "AlreadyInitialized"
                   /\ store' = store
          /\ (call'.op = "initialize" /\ result'.status = "InvalidFee")
                => store' = store]_vars

C10_Witness ==
    /\ call.op = "initialize"
    /\ result.status = "AlreadyInitialized"
    /\ campaignCounter > 0

\* C11: no step decreases any of the four counters (initialize included), and
\* a successful creating operation adds exactly 1 to its own counter and leaves
\* the others (a donate that mints also adds 1 to the NFT counter).
C11_CountersMonotonic ==
    [][/\ campaignCounter' >= campaignCounter
       /\ donationCounter' >= donationCounter
       /\ nftCounter' >= nftCounter
       /\ disbursementCounter' >= disbursementCounter
       /\ (call'.op = "create_campaign" /\ result'.status = "Ok")
             => /\ campaignCounter' = campaignCounter + 1
                /\ UNCHANGED <<donationCounter, nftCounter, disbursementCounter>>
       /\ (call'.op = "donate" /\ result'.status = "Ok")
             => /\ donationCounter' = donationCounter + 1
                /\ nftCounter' = nftCounter + (IF call'.mint_nft THEN 1 ELSE 0)
                /\ UNCHANGED <<campaignCounter, disbursementCounter>>
       /\ (call'.op = "create_disbursement" /\ result'.status = "Ok")
             => /\ disbursementCounter' = disbursementCounter + 1
                /\ UNCHANGED <<campaignCounter, donationCounter, nftCounter>>]_vars

\* C12: a successful creating operation stores its record under an identifier
\* that held no record before the call, so no Campaign, Donation, NFTBadge or
\* Disbursement record is overwritten by a creating operation.
C12_IdentifiersNeverReused ==
    [][/\ (call'.op = "create_campaign" /\ result'.status = "Ok")
             => result'.value \notin DOMAIN campaigns
       /\ (call'.op = "donate" /\ result'.status = "Ok")
             => /\ result'.value \notin DOMAIN donations
                /\ \A n \in DOMAIN nfts : nfts'[n] = nfts[n]
       /\ (call'.op = "create_disbursement" /\ result'.status = "Ok")
             => result'.value \notin DOMAIN disbursements]_vars

\* The number of campaigns whose active flag is set.
ActiveCampaigns == {c \in DOMAIN campaigns : campaigns[c].active}

\* C13: PlatformStats is recomputable from the stored records: the counts of
\* campaigns, active campaigns, donations and badges, and the sum of all
\* donation amounts.
C13_StatsRecomputable ==
    /\ stats.total_campaigns = Cardinality(DOMAIN campaigns)
    /\ stats.active_campaigns = Cardinality(ActiveCampaigns)
    /\ stats.total_donations = Cardinality(DOMAIN donations)
    /\ Same(stats.total_raised, SumAmounts(donations, DOMAIN donations))
    /\ stats.total_nfts = Cardinality(DOMAIN nfts)

\* C14: the score of a TrustScore record is a function of its counters only:
\* records with the same donation_count, total_donated and campaigns_created
\* carry the same score, whatever sequence of operations produced them.  The
\* handlers treat every address alike, so the records of two addresses in
\* one state stand for the records one address has after two sequences.
C14_ScoreFunctionOfCounters ==
    \A a, b \in DOMAIN trustScores :
        (/\ trustScores[a].donation_count = trustScores[b].donation_count
         /\ trustScores[a].total_donated = trustScores[b].total_donated
         /\ trustScores[a].campaigns_created = trustScores[b].campaigns_created)
        => trustScores[a].score = trustScores[b].score

\* C15: a donate authorized by the donor ends with the first error that
\* applies, in the order CampaignNotFound (no such campaign), CampaignInactive
\* (active is false), CampaignEnded (now > end_time), InvalidAmount (gross
\* amount 0), and succeeds exactly when none applies.
C15_DonateErrorOrder ==
    \A id \in DOMAIN campaigns \cup {UnknownCampaign}, d \in Inputs.donors,
       a \in Inputs.amounts :
        donate_outcome(id, d, a, d) =
            IF id \notin DOMAIN campaigns THEN "CampaignNotFound"
            ELSE IF ~campaigns[id].active THEN "CampaignInactive"
            ELSE IF now > campaigns[id].end_time THEN "CampaignEnded"
            ELSE IF a = Zero64 THEN "InvalidAmount"
            ELSE "Ok"

\* C16: a campaign's active flag changes at most once, from true to false, and
\* only by a close_campaign authorized by its beneficiary; an inactive campaign
\* never becomes active again; close_campaign fails with CampaignInactive on
\* an inactive campaign and with CampaignNotFound on an unknown id.
C16_ActiveClearedOnce ==
    /\ [](/\ \A c \in DOMAIN campaigns :
                ~campaigns[c].active
                => close_campaign_check(c, campaigns[c].beneficiary)
                       = "CampaignInactive"
          /\ \A s \in Inputs.signers :
                close_campaign_check(UnknownCampaign, s) = "CampaignNotFound")
    /\ [][\A c \in DOMAIN campaigns :
             /\ ~campaigns[c].active => ~campaigns'[c].active
             /\ (campaigns[c].active /\ ~campaigns'[c].active)
                   => /\ call'.op = "close_campaign"
                      /\ result'.status = "Ok"
                      /\ call'.campaign_id = c
                      /\ call'.signer = campaigns[c].beneficiary]_vars

\* C17: create_campaign authorized by the beneficiary fails with InvalidGoal
\* when goal_amount is 0, otherwise with InvalidDuration when duration_days is
\* 0 or above 365, otherwise with InvalidInput when the title or the
\* description is empty; such a call creates no Campaign or TrustScore record
\* and leaves the campaign counter and the stats.
C17_CreateCampaignErrors ==
    /\ [](\A b \in Inputs.signers, t \in {"", "T"}, d \in {"", "D"},
             g \in {0, 1, 10000}, n \in {0, 1, 365, 366} :
             create_campaign_check(b, t, d, g, n, b) =
                 IF g = 0 THEN "InvalidGoal"
                 ELSE IF n = 0 \/ n > 365 THEN "InvalidDuration"
                 ELSE IF t = "" \/ d = "" THEN "InvalidInput"
                 ELSE "Ok")
    /\ [][(/\ call'.op = "create_campaign"
           /\ result'.status \in {"InvalidGoal", "InvalidDuration", "InvalidInput"})
          => UNCHANGED <<campaigns, trustScores, campaignCounter, stats>>]_vars

C17_Witness ==
    /\ call.op = "create_campaign"
    /\ result.status = "InvalidDuration"
    /\ campaignCounter > 0
    /\ stats.total_campaigns > 0

\* C18 as stated: approve_disbursement invoked by a signer other than the
\* admin fails with Unauthorized; invoked by the admin on an id without a
\* record it fails with DisbursementNotFound; a failed call changes no
\* disbursement.
C18_ApproveUnauthorized ==
    /\ [](/\ \A d \in DOMAIN disbursements \cup {UnknownDisbursement},
                s \in DisbInputs.signers :
                s # admin => approve_disbursement_check(d, s) = "Unauthorized"
          /\ admin # NoAddress
                => approve_disbursement_check(UnknownDisbursement, admin)
                       = "DisbursementNotFound")
    /\ [][(call'.op = "approve_disbursement" /\ result'.status # "Ok")
          => disbursements' = disbursements]_vars

\* C18 amended: approve_disbursement invoked without the admin's authorization
\* fails and changes no disbursement: with Unauthorized while no admin is
\* stored, and otherwise by the abort of the admin's require_auth, which is no
\* error of the taxonomy; invoked by the admin on an id without a record it
\* fails with DisbursementNotFound.
C18_ApproveNeedsAdmin ==
    /\ [](/\ \A d \in DOMAIN disbursements \cup {UnknownDisbursement},
                s \in DisbInputs.signers :
                s # admin
                => approve_disbursement_check(d, s) =
                       IF admin = NoAddress THEN "Unauthorized" ELSE "AuthFailed"
          /\ admin # NoAddress
                => approve_disbursement_check(UnknownDisbursement, admin)
                       = "DisbursementNotFound")
    /\ [][/\ (call'.op = "approve_disbursement" /\ result'.status # "Ok")
                => disbursements' = disbursements
          /\ (call'.op = "approve_disbursement" /\ result'.status = "Ok")
                => call'.signer = admin /\ admin # NoAddress]_vars

C18_Witness ==
    /\ call.op = "approve_disbursement"
    /\ result.status = "AuthFailed"
    /\ admin # NoAddress
    /\ \E d \in DOMAIN disbursements : disbursements[d].status = "Pending"

\* C19: whenever a disbursement has status Executed, the history holds, in
\* this order, a create_disbursement authorized by the campaign's beneficiary,
\* an approve_disbursement authorized by the admin and an execute_disbursement
\* authorized by the recipient, all for that disbursement.
C19_ThreeCheckpoints ==
    \A d \in DOMAIN disbursements :
        disbursements[d].status = "Executed" => Checkpoint(d) = 3

C19_Witness ==
    \E d \in DOMAIN disbursements :
        /\ disbursements[d].status = "Executed"
        /\ Checkpoint(d) = 3
        /\ call.op = "execute_disbursement"
        /\ result.status = "Ok"

\* C20: a successful donate creates a badge exactly when mint_nft is true:
\* exactly one new NFTBadge record, owned by the donor, whose tier follows
\* from the net amount a stored in the Donation: a < 1000 Bronze, a < 5000
\* Silver, a < 10000 Gold, a < 50000 Platinum, otherwise Diamond.
C20_BadgeByNetAmount ==
    [][(call'.op = "donate" /\ result'.status = "Ok") =>
          LET net  == donations'[result'.value].amount
              a    == net[1] + net[2] * Base
              big  == net[3] # 0 \/ net[4] # 0 \/ net[2] >= 16384
              tier == IF big THEN "Diamond Supporter"
                      ELSE IF a < 1000 THEN "Bronze Supporter"
                      ELSE IF a < 5000 THEN "Silver Supporter"
                      ELSE IF a < 10000 THEN "Gold Supporter"
                      ELSE IF a < 50000 THEN "Platinum Supporter"
                      ELSE "Diamond Supporter"
              new  == DOMAIN nfts' \ DOMAIN nfts
          IN  /\ \A n \in DOMAIN nfts : nfts'[n] = nfts[n]
              /\ IF call'.mint_nft
                 THEN /\ Cardinality(new) = 1
                      /\ \A n \in new : /\ nfts'[n].owner = call'.donor
                                        /\ nfts'[n].badge_type = tier
                 ELSE new = {}]_vars

\* C21: a campaign's current_amount never decreases, and only a successful
\* donate to that campaign changes it.
C21_CurrentAmountFrame ==
    [][\A c \in DOMAIN campaigns :
          /\ Leq(campaigns[c].current_amount, campaigns'[c].current_amount)
          /\ campaigns'[c].current_amount # campaigns[c].current_amount
                => /\ call'.op = "donate"
                   /\ result'.status = "Ok"
                   /\ call'.campaign_id = c]_vars

\* C22: a successful create_campaign at time now stores, under the id it
\* returns, a campaign with the given beneficiary and goal_amount,
\* current_amount 0, active, not verified, trust_score 0, start_time = now and
\* end_time = now + duration_days * 86400; the campaign keeps that start_time
\* and end_time in every later state.
C22_CreateCampaignStores ==
    [][/\ (call'.op = "create_campaign" /\ result'.status = "Ok")
             => /\ result'.value \in DOMAIN campaigns'
                /\ LET c == campaigns'[result'.value]
                   IN  /\ c.beneficiary = call'.beneficiary
                       /\ c.goal_amount = call'.goal_amount
                       /\ c.current_amount = Zero64
                       /\ c.active
                       /\ ~c.verified
                       /\ c.trust_score = 0
                       /\ c.start_time = now
                       /\ c.end_time = now + call'.duration_days * 86400
       /\ \A c \in DOMAIN campaigns :
             /\ campaigns'[c].start_time = campaigns[c].start_time
             /\ campaigns'[c].end_time = campaigns[c].end_time]_vars

\* C23: verify_campaign authorized by the admin on an existing campaign sets
\* verified and trust_score = min(score, 100) and changes no other field; on
\* an unknown id it fails with CampaignNotFound; every campaign's trust_score
\* is at most 100, and verified never returns to false.
C23_VerifyCampaign ==
    /\ [](/\ \A c \in DOMAIN campaigns : campaigns[c].trust_score <= 100
          /\ admin # NoAddress
                => verify_campaign_check(UnknownCampaign, admin) = "CampaignNotFound")
    /\ [][/\ (call'.op = "verify_campaign" /\ result'.status = "Ok")
                => campaigns' =
                       [campaigns EXCEPT ![call'.campaign_id] =
                           [@ EXCEPT !.verified = TRUE,
                                     !.trust_score =
                                         IF call'.trust_score < 100
                                         THEN call'.trust_score ELSE 100]]
          /\ \A c \in DOMAIN campaigns :
                campaigns[c].verified => campaigns'[c].verified]_vars

\* C24: after a successful donate of net amount n, the donor's TrustScore has
\* donation_count increased by 1, total_donated increased by n, and score =
\* min(100, 50 + floor(30 * min(donation_count, 100) / 100)
\*               + floor(15 * min(floor(total_donated / 1000), 100) / 100)
\*               + (5 if donation_count > 1 else 0)) on the updated counters.
C24_DonorScoreAfterDonate ==
    [][(call'.op = "donate" /\ result'.status = "Ok") =>
          LET d     == call'.donor
              n     == donations'[result'.value].amount
              count == IF d \in DOMAIN trustScores
                       THEN trustScores[d].donation_count ELSE 0
              total == IF d \in DOMAIN trustScores
                       THEN trustScores[d].total_donated ELSE Zero64
              new   == trustScores'[d]
              k     == IF new.donation_count < 100 THEN new.donation_count ELSE 100
              t     == MinSmall(DivRem(new.total_donated, 1000).q, 100)
              sum   == 50 + ((30 * k) \div 100) + ((15 * t) \div 100)
                          + (IF new.donation_count > 1 THEN 5 ELSE 0)
          IN  /\ d \in DOMAIN trustScores'
              /\ new.donation_count = count + 1
              /\ Same(new.total_donated, Plus(total, n))
              /\ new.score = IF sum < 100 THEN sum ELSE 100]_vars

\* C25: a successful create_campaign first gives the beneficiary a TrustScore
\* record with score 50 and all counters zero if it has none (and leaves an
\* existing record, never failing with ScoreExists), then adds 1 to
\* campaigns_created and sets score to min(100, previous score +
\* min(new campaigns_created, 20)), leaving donation_count and total_donated.
C25_BeneficiaryScoreAfterCreate ==
    /\ [](\A score \in {0, 50, 79, 80, 81, 99, 100}, created \in {1, 19, 20, 21, 25} :
             beneficiary_score(score, created) =
                 LET boost == IF created < 20 THEN created ELSE 20
                 IN  IF score + boost < 100 THEN score + boost ELSE 100)
    /\ [][/\ (call'.op = "create_campaign" /\ result'.status = "Ok") =>
               LET b       == call'.beneficiary
                   has     == b \in DOMAIN trustScores
                   score   == IF has THEN trustScores[b].score ELSE 50
                   created == IF has THEN trustScores[b].campaigns_created ELSE 0
                   count   == IF has THEN trustScores[b].donation_count ELSE 0
                   total   == IF has THEN trustScores[b].total_donated ELSE Zero64
                   boost   == IF created + 1 < 20 THEN created + 1 ELSE 20
                   new     == trustScores'[b]
               IN  /\ b \in DOMAIN trustScores'
                   /\ new.campaigns_created = created + 1
                   /\ new.score = IF score + boost < 100 THEN score + boost ELSE 100
                   /\ new.donation_count = count
                   /\ new.total_donated = total
                   /\ \A a \in DOMAIN trustScores :
                         a # b => trustScores'[a] = trustScores[a]
          /\ call'.op = "create_campaign" => result'.status # "ScoreExists"]_vars

C25_Witness ==
    /\ call.op = "create_campaign"
    /\ result.status = "Ok"
    /\ \E a \in DOMAIN trustScores :
          /\ a = call.beneficiary
          /\ trustScores[a].campaigns_created >= 2
          /\ trustScores[a].donation_count = 1
          /\ trustScores[a].score > 50

\* C26: there is one TrustScore record per address, exactly for the addresses
\* that have made a successful create_campaign or a successful donate, and its
\* donation_count is the number of successful donations of the address,
\* total_donated the sum of their net amounts, and campaigns_created the
\* number of its successful create_campaign calls.
C26_TrustRecordCountsHistory ==
    /\ DOMAIN trustScores = DOMAIN activity
    /\ \A a \in DOMAIN trustScores :
          /\ trustScores[a].entity = a
          /\ trustScores[a].donation_count = activity[a].donations
          /\ Same(trustScores[a].total_donated, activity[a].donated)
          /\ trustScores[a].campaigns_created = activity[a].campaigns

\* C27: while no admin is stored, verify_campaign and approve_disbursement
\* fail with Unauthorized, whatever the id and the signer, and change nothing;
\* so while the contract is uninitialized no campaign is verified and no
\* disbursement has status Approved or Executed.
C27_UninitializedRejects ==
    /\ [](admin = NoAddress =>
             /\ \A c \in DOMAIN campaigns \cup {UnknownCampaign},
                   s \in Inputs.signers :
                   verify_campaign_check(c, s) = "Unauthorized"
             /\ \A d \in DOMAIN disbursements \cup {UnknownDisbursement},
                   s \in Inputs.signers :
                   approve_disbursement_check(d, s) = "Unauthorized"
             /\ \A c \in DOMAIN campaigns : ~campaigns[c].verified
             /\ \A d \in DOMAIN disbursements :
                   disbursements[d].status = "Pending")
    /\ [][(/\ admin = NoAddress
           /\ call'.op \in {"verify_campaign", "approve_disbursement"})
          => /\ result'.status = "Unauthorized"
             /\ store' = store]_vars

C27_Witness ==
    /\ admin = NoAddress
    /\ call.op = "approve_disbursement"
    /\ result.status = "Unauthorized"
    /\ campaigns # Empty
    /\ disbursements # Empty
====
